---- MODULE Spec2Model ----
(***************************************************************************)
(* State-machine model of the DateInput2 React function component          *)
(* (packages/datetime2/src/components/date-input2/dateInput2.tsx).         *)
(*                                                                         *)
(* The component state is the useState cells; the closures that            *)
(* useCallback memoises are modelled by the values they captured at the    *)
(* render that created them (hdc, kd).  Every action is one DOM or         *)
(* child-component event: the whole handler, the batched state update and  *)
(* the render that follows it.                                             *)
(*                                                                         *)
(* Dates are records [kind, mon, day, time]; kind "null" is JS null,       *)
(* kind "invalid" is an Invalid Date, kind "false" is the `false` a        *)
(* caller-supplied parseDate may return.  Strings are records              *)
(* [kind, id, d, tz, prec]: kind "text" is text typed by the user, kind    *)
(* "iso" is the output of getIsoEquivalentWithUpdatedTimezone, kind "null" *)
(* is JS null and kind "undefined" is JS undefined.                        *)
(***************************************************************************)
EXTENDS Integers, Sequences, FiniteSets, TLC

\* ---------------------------------------------------------------- bounds
\* days of a month
MaxDay == 2

\* The code compares months and times of day for equality only: the month
\* and time of the selected date, and one other of each
Months == {1, 2}
LastMonth == CHOOSE m \in Months : \A n \in Months : n <= m
Times == {0, 1}

\* ------------------------------------------------------------ value model
NullDate == [kind |-> "null", mon |-> 0, day |-> 0, time |-> 0]
InvalidDate == [kind |-> "invalid", mon |-> 0, day |-> 0, time |-> 0]
FalseDate == [kind |-> "false", mon |-> 0, day |-> 0, time |-> 0]
UndefinedDate == [kind |-> "undefined", mon |-> 0, day |-> 0, time |-> 0]

MkDate(m, d, t) == [kind |-> "date", mon |-> m, day |-> d, time |-> t]

Dates == {MkDate(m, d, t) : m \in Months, d \in 1..MaxDay, t \in Times}

Timezones == {"Etc/UTC", "Europe/Paris"}

TimePrecisions == {"none", "minute", "millisecond"}

NullStr == [kind |-> "null", id |-> "", d |-> NullDate, tz |-> "", prec |-> ""]
UndefinedStr == [kind |-> "undefined", id |-> "", d |-> NullDate, tz |-> "", prec |-> ""]

MkText(i, dt) == [kind |-> "text", id |-> i, d |-> dt, tz |-> "", prec |-> ""]

EmptyText == MkText("", NullDate)
JunkText == MkText("junk", NullDate)
UnparsedText == MkText("unparsed", NullDate)
InvalidDateMessage == MkText("invalidDateMessage", NullDate)
OutOfRangeMessage == MkText("outOfRangeMessage", NullDate)

\* the text a user types for a day, e.g. "2/15/2015": it carries no time
DayText(m, d) == MkText("m/d/y", MkDate(m, d, 0))

TypedTexts ==
    {EmptyText, JunkText, UnparsedText, InvalidDateMessage}
        \cup {DayText(m, d) : m \in Months, d \in 1..MaxDay}

\* String.prototype.length, as far as the code looks at it (> 0, === 0)
Length(s) == IF s.kind = "text" /\ s.id = "" THEN 0 ELSE 1

\* --------------------------------------------------------------- props
\* minDate / maxDate props: every modelled day but those after the first
\* day of the last month is in range
MinDate == MkDate(1, 1, 0)
MaxDate == MkDate(LastMonth, 1, 0)

\* new Date(): the wall clock when props.parseDate returned false
Today == MkDate(1, 1, 0)

VARIABLES
    disabled,           \* props.disabled
    value,              \* props.value (UndefinedStr when uncontrolled)
    closeOnSelection,   \* props.closeOnSelection: "undefined", "true", "false"
    timePrecision,      \* props.timePrecision ("none" is undefined)
    parseDateRejects,   \* what props.parseDate returns for "" and for junk:
                        \* "Invalid Date" (as new Date(str) does) or "false"
    isOpen,
    timezoneValue,
    valueAsDate,
    isInputFocused,
    inputValue,
    hdc,                \* what the memoised handleDateChange captured
    kd,                 \* what the memoised handleInputKeyDown captured
    activeElement,      \* document.activeElement: "body", "input", "popover"
    rendered,           \* props given to Popover2 / InputGroup / DatePicker
    onChangeCalls,      \* props.onChange invocations of the last event
    onErrorCalls,       \* props.onError invocations of the last event
    focusCalls,         \* elements the handlers of the last event called focus() on
    lastEvent

vars == <<disabled, value, closeOnSelection, timePrecision, parseDateRejects, isOpen, timezoneValue,
          valueAsDate, isInputFocused, inputValue, hdc, kd, activeElement,
          rendered, onChangeCalls, onErrorCalls, focusCalls, lastEvent>>

propVars == <<value, closeOnSelection, timePrecision, parseDateRejects>>

\* ------------------------------------------------------ external helpers
\* common/dateUtils isDateValid
isDateValid(date) == date.kind = "date"

\* common/dateUtils isDayInRange: day granularity, inclusive
DayIndex(date) == date.mon * (MaxDay + 1) + date.day

isDayInRange(date, minDate, maxDate) ==
    /\ date.kind = "date"
    /\ DayIndex(minDate) <= DayIndex(date)
    /\ DayIndex(date) <= DayIndex(maxDate)

\* the ISO format of a time precision drops the finer fields
TruncateToPrecision(date, precision) ==
    IF date.kind = "date" /\ precision # "millisecond"
    THEN [date EXCEPT !.time = 0]
    ELSE date

\* common/timezoneUtils getIsoEquivalentWithUpdatedTimezone: the wall-clock
\* fields of date, at the precision, followed by the UTC offset of timezone
getIsoEquivalentWithUpdatedTimezone(date, timezone, precision) ==
    [kind |-> "iso", id |-> "", d |-> TruncateToPrecision(date, precision),
     tz |-> timezone, prec |-> precision]

\* common/timezoneUtils getDateObjectFromIsoString: undefined and null are
\* passed through; an ISO string gives its date as the wall clock of timezone
\* shows it (the strings the modelled parent passes carry the offset of
\* timezone, so these are the fields of the string)
getDateObjectFromIsoString(str, timezone) ==
    CASE str.kind = "undefined" -> UndefinedDate
      [] str.kind = "iso" -> str.d
      [] OTHER -> NullDate

\* props.parseDate: the caller's parser
\* props.formatDate of the tests: month/day/year of the date, without its time
PropsFormatDate(date) == DayText(date.mon, date.day)

PropsParseDate(str) ==
    CASE str.kind = "iso" -> str.d
      [] str.kind = "text" /\ str.id = "m/d/y" -> str.d
      [] str.kind = "text" /\ str.id = "unparsed" -> FalseDate
      [] str.kind = "text" /\ parseDateRejects = "false" -> FalseDate
      [] OTHER -> InvalidDate

\* ------------------------------------------------------- the component
\* value === undefined is the uncontrolled mode
IsControlled == value.kind # "undefined"

valueFromProps == getDateObjectFromIsoString(value, timezoneValue)

hasMonthChanged(prevDate, nextDate) ==
    \/ (prevDate.kind = "null") # (nextDate.kind = "null")
    \/ prevDate.kind = "invalid"
    \/ nextDate.kind = "invalid"
    \/ nextDate.mon # prevDate.mon

hasTimeChanged(prevDate, nextDate) ==
    \/ (prevDate.kind = "null") # (nextDate.kind = "null")
    \/ prevDate.kind = "invalid"
    \/ nextDate.kind = "invalid"
    \/ nextDate.time # prevDate.time

\* the formattedDateValue memo for a selected date and timezone
FormattedOf(date, timezone) ==
    IF date.kind = "null"
    THEN EmptyText
    ELSE getIsoEquivalentWithUpdatedTimezone(date, timezone, timePrecision)

formattedDateValue == FormattedOf(valueAsDate, timezoneValue)

parseDate(dateString) ==
    IF dateString = OutOfRangeMessage \/ dateString = InvalidDateMessage
    THEN NullDate
    ELSE LET newDate == PropsParseDate(dateString)
         IN  IF newDate.kind = "false" THEN Today ELSE newDate

\* mutant: the disabled prop is not consulted
PopoverIsOpenIgnoringDisabled(open, dis) == open

\* <Popover2 isOpen={isOpen && !props.disabled}>
PopoverIsOpen(open, dis) == open /\ ~dis

\* <InputGroup value={isInputFocused ? inputValue ?? undefined : formattedDateValue}>
InputGroupValue(focused, iv, formatted) ==
    IF focused
    THEN (IF iv.kind = "null" THEN UndefinedStr ELSE iv)
    ELSE formatted

\* the render that follows a state or prop change: useCallback keeps a
\* handler until one of its dependencies changes (the parent passes the
\* same onChange function at every render)

\* handleDateChange: dependencies [props.onChange, timezoneValue, timePrecision]
HandleDateChangeClosure ==
    IF timezoneValue' # timezoneValue
    THEN [prevDate |-> valueAsDate', tz |-> timezoneValue']
    ELSE hdc

\* handleInputKeyDown: dependencies [inputValue, props.inputProps?.onKeyDown];
\* it holds the handleDateChange of the render that created it
HandleInputKeyDownClosure ==
    IF inputValue' # inputValue
    THEN [isOpen |-> isOpen', prevDate |-> hdc'.prevDate, tz |-> hdc'.tz]
    ELSE kd

Rerender ==
    /\ hdc' = HandleDateChangeClosure
    /\ kd' = HandleInputKeyDownClosure
    /\ rendered' = [isOpen |-> PopoverIsOpen(isOpen', disabled'),
                    inputValue |-> InputGroupValue(isInputFocused', inputValue',
                                                   FormattedOf(valueAsDate', timezoneValue')),
                    datePickerValue |-> valueAsDate',
                    timezoneSelectValue |-> timezoneValue']

\* the last event: its inputs and, for a date change or Enter, the date that
\* was selected before it
Event(op, arg, user, text) ==
    lastEvent' = [op |-> op, arg |-> arg, user |-> user, text |-> text,
                  prev |-> IF op \in {"dateChange", "keydown Enter"}
                           THEN valueAsDate
                           ELSE NullDate]

Call(arg, isUserChange) == [arg |-> arg, isUserChange |-> isUserChange]

\* the state a handler leaves behind and the callbacks it invoked
Result(open, focused, date, iv, changes, errors) ==
    [isOpen |-> open, isInputFocused |-> focused, valueAsDate |-> date,
     inputValue |-> iv, onChange |-> changes, onError |-> errors]

Unchanged == Result(isOpen, isInputFocused, valueAsDate, inputValue, <<>>, <<>>)

Apply(r) ==
    /\ isOpen' = r.isOpen
    /\ isInputFocused' = r.isInputFocused
    /\ valueAsDate' = r.valueAsDate
    /\ inputValue' = r.inputValue
    /\ onChangeCalls' = r.onChange
    /\ onErrorCalls' = r.onError

\* ---- handlePopoverClose (Popover2 onClose: outside click, Escape in the popover)
HandlePopoverClose ==
    /\ rendered.isOpen
    /\ Apply([Unchanged EXCEPT !.isOpen = FALSE])
    /\ activeElement' = IF activeElement = "popover" THEN "body" ELSE activeElement
    /\ Event("popoverClose", NullDate, FALSE, NullStr)
    /\ focusCalls' = <<>>
    /\ UNCHANGED <<disabled, propVars, timezoneValue>>
    /\ Rerender

\* ---- handleTimezoneChange (TimezoneSelect onChange)
isTimezoneSelectHidden == timePrecision = "none"

\* the timezone a TimezoneSelect item stands for, as the input of an event
TimezoneItem(timezone) == [NullStr EXCEPT !.kind = "timezone", !.tz = timezone]

\* mutant: setTimezoneValue(newTimezone) is missing
TimezoneChangeResultKeepsTimezone(newTimezone) ==
    IF valueAsDate.kind # "null"
    THEN [timezoneValue |-> timezoneValue,
          onChange |-> <<Call(getIsoEquivalentWithUpdatedTimezone(valueAsDate, newTimezone,
                                                                 timePrecision),
                              "undefined")>>]
    ELSE [timezoneValue |-> timezoneValue, onChange |-> <<>>]

TimezoneChangeResult(newTimezone) ==
    IF valueAsDate.kind # "null"
    THEN [timezoneValue |-> newTimezone,
          onChange |-> <<Call(getIsoEquivalentWithUpdatedTimezone(valueAsDate, newTimezone,
                                                                 timePrecision),
                              "undefined")>>]
    ELSE [timezoneValue |-> timezoneValue, onChange |-> <<>>]

HandleTimezoneChange(newTimezone) ==
    /\ ~disabled
    /\ ~isTimezoneSelectHidden
    /\ activeElement # "input"
    /\ timezoneValue' = TimezoneChangeResult(newTimezone).timezoneValue
    /\ onChangeCalls' = TimezoneChangeResult(newTimezone).onChange
    /\ onErrorCalls' = <<>>
    /\ activeElement' = "body"
    /\ Event("timezoneChange", NullDate, FALSE, TimezoneItem(newTimezone))
    /\ focusCalls' = <<>>
    /\ UNCHANGED <<disabled, propVars, isOpen, valueAsDate, isInputFocused, inputValue>>
    /\ Rerender

\* ---- handleDateChange
NewIsOpen(prevDate, newDate, isUserChange) ==
    \/ ~isUserChange
    \/ closeOnSelection # "true"
    \/ /\ prevDate.kind # "null"
       /\ \/ hasMonthChanged(prevDate, newDate)
          \/ timePrecision # "none" /\ hasTimeChanged(prevDate, newDate)

BoolArg(b) == IF b THEN "true" ELSE "false"

\* mutant: the uncontrolled branch does not call setValue
handleDateChangeNoSetValue(prevDate, timezone, newDate, isUserChange, didSubmitWithEnter) ==
    IF newDate.kind = "null"
    THEN [Unchanged EXCEPT !.onChange = <<Call(NullStr, BoolArg(isUserChange))>>]
    ELSE LET newIsOpen == NewIsOpen(prevDate, newDate, isUserChange)
             newDateString == getIsoEquivalentWithUpdatedTimezone(newDate, timezone, timePrecision)
         IN  Result(newIsOpen, didSubmitWithEnter, valueAsDate,
                    IF ~IsControlled THEN newDateString ELSE inputValue,
                    <<Call(newDateString, BoolArg(isUserChange))>>, <<>>)

\* mutant: onChange is given the date that was selected before
handleDateChangeReportsPrevDate(prevDate, timezone, newDate, isUserChange, didSubmitWithEnter) ==
    IF newDate.kind = "null"
    THEN [Unchanged EXCEPT !.onChange = <<Call(NullStr, BoolArg(isUserChange))>>]
    ELSE LET newIsOpen == NewIsOpen(prevDate, newDate, isUserChange)
             newDateString == getIsoEquivalentWithUpdatedTimezone(newDate, timezone, timePrecision)
             oldDateString == getIsoEquivalentWithUpdatedTimezone(prevDate, timezone, timePrecision)
         IN  Result(newIsOpen, didSubmitWithEnter,
                    IF ~IsControlled THEN newDate ELSE valueAsDate,
                    IF ~IsControlled THEN newDateString ELSE inputValue,
                    <<Call(oldDateString, BoolArg(isUserChange))>>, <<>>)

\* prevDate and timezone are the ones the closure captured
handleDateChange(prevDate, timezone, newDate, isUserChange, didSubmitWithEnter) ==
    IF newDate.kind = "null"
    THEN [Unchanged EXCEPT !.onChange = <<Call(NullStr, BoolArg(isUserChange))>>]
    ELSE LET newIsOpen == NewIsOpen(prevDate, newDate, isUserChange)
             newDateString == getIsoEquivalentWithUpdatedTimezone(newDate, timezone, timePrecision)
             newIsInputFocused == didSubmitWithEnter
         IN  IF valueFromProps.kind = "undefined"
             THEN Result(newIsOpen, newIsInputFocused, newDate, newDateString,
                         <<Call(newDateString, BoolArg(isUserChange))>>, <<>>)
             ELSE Result(newIsOpen, newIsInputFocused, valueAsDate, inputValue,
                         <<Call(newDateString, BoolArg(isUserChange))>>, <<>>)

\* DatePicker onChange: a day click, a month or year change, a time change
DatePickerChange(newDate, isUserChange) ==
    /\ rendered.isOpen
    /\ activeElement # "input"
    /\ LET r == handleDateChange(hdc.prevDate, hdc.tz, newDate, isUserChange, FALSE)
       IN  /\ Apply(r)
           /\ activeElement' = IF PopoverIsOpen(r.isOpen, disabled) THEN "popover" ELSE "body"
    /\ Event("dateChange", newDate, isUserChange, NullStr)
    /\ focusCalls' = <<>>
    /\ UNCHANGED <<disabled, propVars, timezoneValue>>
    /\ Rerender

\* ---- handleInputFocus
\* mutant: setIsOpen(true) is missing
FocusResultKeepsIsOpen == Result(isOpen, TRUE, valueAsDate, formattedDateValue, <<>>, <<>>)

FocusResult == Result(TRUE, TRUE, valueAsDate, formattedDateValue, <<>>, <<>>)

HandleInputFocus ==
    /\ ~disabled
    /\ activeElement # "input"
    /\ Apply(FocusResult)
    /\ activeElement' = "input"
    /\ Event("focus", NullDate, FALSE, NullStr)
    /\ focusCalls' = <<>>
    /\ UNCHANGED <<disabled, propVars, timezoneValue>>
    /\ Rerender

\* ---- handleStartFocusBoundaryFocusIn / handleEndFocusBoundaryFocusIn
\* getKeyboardFocusableElements(popoverContentRef): the focusable elements of
\* the popover content without the two boundary elements
KeyboardFocusableElements == <<"first focusable element", "last focusable element">>

FirstFocusable == Head(KeyboardFocusableElements)
LastFocusable == KeyboardFocusableElements[Len(KeyboardFocusableElements)]

\* popoverContentRef.current.contains(element)
PopoverContentContains(element) == element = "popover"

\* the element an event says the focus comes from, as an input of the event
RelatedTarget(element) == [NullStr EXCEPT !.kind = "element", !.id = element]

\* mutant: the start boundary closes the popover as the end boundary does
StartBoundaryResultCloses(fromInside) ==
    IF fromInside
    THEN [state |-> [FocusResult EXCEPT !.isOpen = FALSE], focus |-> "input"]
    ELSE [state |-> Unchanged, focus |-> FirstFocusable]

\* from inside: inputRef.current.focus() runs handleInputFocus
StartBoundaryResult(fromInside) ==
    IF fromInside
    THEN [state |-> FocusResult, focus |-> "input"]
    ELSE [state |-> Unchanged, focus |-> FirstFocusable]

\* the focus enters the start boundary from the element that had it; a focus
\* that leaves the input has run handleInputBlur before
HandleStartFocusBoundaryFocusIn(relatedTarget) ==
    /\ rendered.isOpen
    /\ activeElement = relatedTarget
    /\ LET r == StartBoundaryResult(PopoverContentContains(relatedTarget))
       IN  /\ Apply(r.state)
           /\ focusCalls' = <<r.focus>>
           /\ activeElement' = IF r.focus = "input" THEN "input" ELSE "popover"
    /\ Event("startBoundary focusin", NullDate, FALSE, RelatedTarget(relatedTarget))
    /\ UNCHANGED <<disabled, propVars, timezoneValue>>
    /\ Rerender

\* mutant: handlePopoverClose runs before the focus handler of the input
EndBoundaryResultFocusLast(fromInside) ==
    IF fromInside
    THEN [state |-> FocusResult, focus |-> "input"]
    ELSE [state |-> Unchanged, focus |-> LastFocusable]

\* from inside: inputRef.current.focus() runs handleInputFocus, then
\* handlePopoverClose sets isOpen to false in the same batch of updates
EndBoundaryResult(fromInside) ==
    IF fromInside
    THEN [state |-> [FocusResult EXCEPT !.isOpen = FALSE], focus |-> "input"]
    ELSE [state |-> Unchanged, focus |-> LastFocusable]

HandleEndFocusBoundaryFocusIn(relatedTarget) ==
    /\ rendered.isOpen
    /\ activeElement = relatedTarget
    /\ LET r == EndBoundaryResult(PopoverContentContains(relatedTarget))
       IN  /\ Apply(r.state)
           /\ focusCalls' = <<r.focus>>
           /\ activeElement' = IF r.focus = "input" THEN "input" ELSE "popover"
    /\ Event("endBoundary focusin", NullDate, FALSE, RelatedTarget(relatedTarget))
    /\ UNCHANGED <<disabled, propVars, timezoneValue>>
    /\ Rerender

\* ---- handleInputBlur
BlurResult ==
    IF inputValue.kind = "null" \/ valueAsDate.kind = "null"
    THEN Unchanged
    ELSE LET date == parseDate(inputValue)
         IN  IF /\ Length(inputValue) > 0
                /\ inputValue # formattedDateValue
                /\ (~isDateValid(date) \/ ~isDayInRange(date, MinDate, MaxDate))
             THEN Result(isOpen, FALSE,
                         IF ~IsControlled THEN date ELSE valueAsDate,
                         IF ~IsControlled THEN NullStr ELSE inputValue,
                         IF date.kind = "null" THEN <<Call(NullStr, "true")>> ELSE <<>>,
                         IF date.kind = "null" THEN <<>> ELSE <<date>>)
             ELSE IF Length(inputValue) = 0
                  THEN Result(isOpen, FALSE, NullDate, NullStr, <<>>, <<>>)
                  ELSE Result(isOpen, FALSE, valueAsDate, inputValue, <<>>, <<>>)

HandleInputBlur(target) ==
    /\ activeElement = "input"
    /\ target = "popover" => rendered.isOpen
    /\ Apply(BlurResult)
    /\ activeElement' = target
    /\ Event("blur", NullDate, FALSE, inputValue)
    /\ focusCalls' = <<>>
    /\ UNCHANGED <<disabled, propVars, timezoneValue>>
    /\ Rerender

\* ---- handleInputChange
ChangeResult(valueString) ==
    LET inputValueAsDate == parseDate(valueString)
    IN  IF isDateValid(inputValueAsDate) /\ isDayInRange(inputValueAsDate, MinDate, MaxDate)
        THEN Result(isOpen, isInputFocused,
                    IF ~IsControlled THEN inputValueAsDate ELSE valueAsDate,
                    valueString,
                    <<Call(valueString, "true")>>, <<>>)
        ELSE Result(isOpen, isInputFocused, valueAsDate, valueString,
                    IF Length(valueString) = 0 THEN <<Call(NullStr, "true")>> ELSE <<>>,
                    <<>>)

HandleInputChange(valueString) ==
    /\ activeElement = "input"
    /\ ~disabled
    /\ Apply(ChangeResult(valueString))
    /\ Event("change", NullDate, FALSE, valueString)
    /\ focusCalls' = <<>>
    /\ UNCHANGED <<disabled, propVars, timezoneValue, activeElement>>
    /\ Rerender

\* ---- handleInputKeyDown
\* Shift+Tab: handlePopoverClose
KeyDownShiftTab ==
    /\ activeElement = "input"
    /\ ~disabled
    /\ Apply([Unchanged EXCEPT !.isOpen = FALSE])
    /\ Event("keydown Shift+Tab", NullDate, FALSE, NullStr)
    /\ focusCalls' = <<>>
    /\ UNCHANGED <<disabled, propVars, timezoneValue, activeElement>>
    /\ Rerender

\* Tab while the closure's isOpen is true: focus the first focusable element
\* of the popover content, which blurs the input
KeyDownTab ==
    /\ activeElement = "input"
    /\ ~disabled
    /\ IF kd.isOpen /\ rendered.isOpen
       THEN /\ Apply(BlurResult)
            /\ activeElement' = "popover"
       ELSE /\ Apply(Unchanged)
            /\ activeElement' = activeElement
    /\ Event("keydown Tab", NullDate, FALSE, NullStr)
    /\ focusCalls' = IF kd.isOpen /\ rendered.isOpen THEN <<FirstFocusable>> ELSE <<>>
    /\ UNCHANGED <<disabled, propVars, timezoneValue>>
    /\ Rerender

\* Escape: setIsOpen(false), then inputRef.current.blur() runs handleInputBlur
\* mutant: setIsOpen(false) is missing
EscapeResultKeepsIsOpen == BlurResult

EscapeResult == [BlurResult EXCEPT !.isOpen = FALSE]

KeyDownEscape ==
    /\ activeElement = "input"
    /\ ~disabled
    /\ Apply(EscapeResult)
    /\ activeElement' = "body"
    /\ Event("keydown Escape", NullDate, FALSE, NullStr)
    /\ focusCalls' = <<>>
    /\ UNCHANGED <<disabled, propVars, timezoneValue>>
    /\ Rerender

\* Enter: the handleDateChange the keydown closure captured
EnterResult ==
    IF inputValue.kind # "null"
    THEN handleDateChange(kd.prevDate, kd.tz, parseDate(inputValue), TRUE, TRUE)
    ELSE Unchanged

KeyDownEnter ==
    /\ activeElement = "input"
    /\ ~disabled
    /\ Apply(EnterResult)
    /\ Event("keydown Enter", parseDate(inputValue), TRUE, inputValue)
    /\ focusCalls' = <<>>
    /\ UNCHANGED <<disabled, propVars, timezoneValue, activeElement>>
    /\ Rerender

\* ---- the parent renders the component again with other props
SetDisabled(b) ==
    /\ b # disabled
    /\ disabled' = b
    /\ activeElement' = IF b THEN "body" ELSE activeElement
    /\ Apply(Unchanged)
    /\ Event("props.disabled", NullDate, FALSE, NullStr)
    /\ focusCalls' = <<>>
    /\ UNCHANGED <<propVars, timezoneValue>>
    /\ Rerender

\* the dates a parent passes as value or defaultValue
InitialDate == MkDate(1, 1, 1)

ValueProps(timezone) ==
    {NullStr, getIsoEquivalentWithUpdatedTimezone(InitialDate, timezone, "millisecond")}

SetValue(newValue) ==
    /\ IsControlled
    /\ newValue # value
    /\ newValue \in ValueProps(timezoneValue)
    /\ value' = newValue
    /\ Apply(Unchanged)
    /\ Event("props.value", NullDate, FALSE, NullStr)
    /\ focusCalls' = <<>>
    /\ UNCHANGED <<disabled, closeOnSelection, timePrecision, parseDateRejects,
                   timezoneValue, activeElement>>
    /\ Rerender

\* ---- mount
\* the closeOnSelection, timePrecision and parseDate props of the mounts examined
PropCombos ==
    {<<"undefined", "millisecond", "Invalid Date">>, <<"true", "minute", "Invalid Date">>,
     <<"true", "none", "Invalid Date">>, <<"false", "none", "Invalid Date">>,
     <<"true", "none", "false">>}

DefaultTimezone == "Etc/UTC"

InitialValue(v, defaultValue, timezone) ==
    IF getDateObjectFromIsoString(v, timezone).kind # "undefined"
    THEN getDateObjectFromIsoString(v, timezone)
    ELSE getDateObjectFromIsoString(defaultValue, timezone)

Init ==
    \E v \in {UndefinedStr} \cup ValueProps(DefaultTimezone) :
      LET defaultValue == getIsoEquivalentWithUpdatedTimezone(InitialDate, DefaultTimezone,
                                                             "millisecond")
          date == InitialValue(v, defaultValue, DefaultTimezone)
      IN  /\ disabled = FALSE
          /\ value = v
          /\ \E combo \in PropCombos :
                 /\ closeOnSelection = combo[1]
                 /\ timePrecision = combo[2]
                 /\ parseDateRejects = combo[3]
          /\ isOpen = FALSE
          /\ timezoneValue = DefaultTimezone
          /\ valueAsDate = date
          /\ isInputFocused = FALSE
          /\ inputValue = IF v.kind = "undefined" THEN NullStr ELSE v
          /\ hdc = [prevDate |-> date, tz |-> DefaultTimezone]
          /\ kd = [isOpen |-> FALSE, prevDate |-> date, tz |-> DefaultTimezone]
          /\ activeElement = "body"
          /\ rendered = [isOpen |-> PopoverIsOpen(FALSE, FALSE),
                         inputValue |-> InputGroupValue(FALSE, NullStr,
                                                        FormattedOf(date, DefaultTimezone)),
                         datePickerValue |-> date,
                         timezoneSelectValue |-> DefaultTimezone]
          /\ onChangeCalls = <<>>
          /\ onErrorCalls = <<>>
          /\ focusCalls = <<>>
          /\ lastEvent = [op |-> "mount", arg |-> NullDate, user |-> FALSE, text |-> NullStr,
                          prev |-> NullDate]

\* ------------------------------------------------------------- claims
IsoOf(date, timezone) ==
    [kind |-> "iso", id |-> "",
     d |-> IF timePrecision = "millisecond" THEN date ELSE [date EXCEPT !.time = 0],
     tz |-> timezone, prec |-> timePrecision]

DayClicked ==
    /\ lastEvent.op = "dateChange"
    /\ lastEvent.user
    /\ lastEvent.arg.kind = "date"

\* C1: right after a focus event on the text input of a component that is
\* not disabled, the popover is open
C1_FocusOpensPopover ==
    lastEvent.op = "focus" => isOpen /\ rendered.isOpen

C1_Witness ==
    /\ lastEvent.op = "focus"
    /\ ~disabled
    /\ rendered.isOpen
    /\ activeElement = "input"

\* C2: while the disabled prop is true the popover is never rendered open
C2_DisabledNeverOpen ==
    disabled => ~rendered.isOpen

C2_Witness ==
    /\ disabled
    /\ isOpen
    /\ ~rendered.isOpen

\* C3: right after an Escape keydown in the text input, isOpen is false
C3_EscapeCloses ==
    lastEvent.op = "keydown Escape" => ~isOpen /\ ~rendered.isOpen

C3_Witness ==
    /\ lastEvent.op = "keydown Escape"
    /\ ~isOpen
    /\ activeElement = "body"

\* C4: every invocation of onChange passes null or the ISO string of a
\* valid date, never the text the user typed
C4_OnChangeNullOrIso ==
    \A i \in DOMAIN onChangeCalls :
        \/ onChangeCalls[i].arg.kind = "null"
        \/ /\ onChangeCalls[i].arg.kind = "iso"
           /\ onChangeCalls[i].arg.d.kind = "date"

\* C5: in controlled mode no event changes the component's valueAsDate
C5_ControlledKeepsValueAsDate ==
    [][IsControlled => valueAsDate' = valueAsDate]_vars

\* C6: in controlled mode the calendar selection and the unfocused input
\* text are those of the current value prop (for a value whose offset is
\* the one of the selected timezone)
C6_ControlledShowsValueProp ==
    (IsControlled /\ (value.kind = "iso" => value.tz = timezoneValue)) =>
        /\ rendered.datePickerValue = value.d
        /\ ~isInputFocused => rendered.inputValue = FormattedOf(value.d, timezoneValue)

\* C7: in uncontrolled mode a click on a calendar day makes that day the
\* selected date, and the text input shows it
C7_DayClickSelects ==
    (DayClicked /\ ~IsControlled) =>
        /\ valueAsDate = lastEvent.arg
        /\ rendered.datePickerValue = lastEvent.arg
        /\ rendered.inputValue = IsoOf(lastEvent.arg, timezoneValue)

C7_Witness ==
    /\ DayClicked
    /\ ~IsControlled
    /\ lastEvent.prev.kind = "date"
    /\ lastEvent.prev # lastEvent.arg
    /\ valueAsDate = lastEvent.arg
    /\ rendered.inputValue.d = TruncateToPrecision(lastEvent.arg, timePrecision)

\* C8: when closeOnSelection is not provided, a user click on another day of
\* the month of the selected date, the time unchanged, closes the popover
C8_DefaultClosesOnSelection ==
    (/\ DayClicked
     /\ closeOnSelection = "undefined"
     /\ lastEvent.prev.kind = "date"
     /\ lastEvent.arg.day # lastEvent.prev.day
     /\ lastEvent.arg.mon = lastEvent.prev.mon
     /\ lastEvent.arg.time = lastEvent.prev.time) => ~isOpen

\* C9: in uncontrolled mode Enter after typing a date string saves the
\* parsed date as the selected date and closes the popover (stated for a
\* component whose closeOnSelection prop is true)
C9_EnterSavesAndCloses ==
    (/\ lastEvent.op = "keydown Enter"
     /\ ~IsControlled
     /\ closeOnSelection = "true"
     /\ lastEvent.text.kind = "text"
     /\ lastEvent.text.id = "m/d/y") =>
        /\ valueAsDate = lastEvent.text.d
        /\ ~isOpen

\* C10: a non-null date change reported by the calendar invokes onChange
\* exactly once, with the ISO string of the new date in the selected
\* timezone at timePrecision and with isUserChange as reported
C10_DateChangeCallsOnChangeOnce ==
    (lastEvent.op = "dateChange" /\ lastEvent.arg.kind = "date") =>
        onChangeCalls = <<[arg |-> IsoOf(lastEvent.arg, timezoneValue),
                           isUserChange |-> IF lastEvent.user THEN "true" ELSE "false"]>>

C10_Witness ==
    /\ lastEvent.op = "dateChange"
    /\ lastEvent.arg.kind = "date"
    /\ lastEvent.arg.time # 0
    /\ timePrecision = "minute"
    /\ timezoneValue # DefaultTimezone
    /\ IsControlled
    /\ Len(onChangeCalls) = 1
    /\ onChangeCalls[1].arg.d.time = 0

\* C12: right after the input text is changed to the empty string, onChange
\* has been invoked exactly once, with (null, true), controlled or not
C12_ClearingCallsOnChangeNull ==
    (lastEvent.op = "change" /\ lastEvent.text = EmptyText) =>
        onChangeCalls = <<[arg |-> NullStr, isUserChange |-> "true"]>>

\* C13: right after a blur of the input that held non-empty typed text which
\* parses to an invalid date or to a date out of range, onError has been
\* invoked with that date, whatever was selected before
C13_BlurReportsError ==
    (/\ lastEvent.op = "blur"
     /\ lastEvent.text.kind = "text"
     /\ Length(lastEvent.text) > 0
     /\ \/ parseDate(lastEvent.text).kind = "invalid"
        \/ /\ parseDate(lastEvent.text).kind = "date"
           /\ ~isDayInRange(parseDate(lastEvent.text), MinDate, MaxDate))
        => onErrorCalls = <<parseDate(lastEvent.text)>>

\* C14: right after the user types a date out of range, blurs the input that
\* holds it or presses Enter on it, onChange has not been invoked
C14_OutOfRangeNoOnChange ==
    (/\ lastEvent.op \in {"change", "blur", "keydown Enter"}
     /\ lastEvent.text.kind = "text"
     /\ parseDate(lastEvent.text).kind = "date"
     /\ ~isDayInRange(parseDate(lastEvent.text), MinDate, MaxDate))
        => onChangeCalls = <<>>

\* C15: while a date is selected, right after a focus of the input, a day
\* click in the calendar or an Enter keydown that commits a typed day, the
\* input shows that date as the formatDate prop formats it
C15_InputShowsFormatDate ==
    (/\ \/ lastEvent.op = "focus"
        \/ DayClicked
        \/ lastEvent.op = "keydown Enter" /\ lastEvent.text.kind = "text"
                                          /\ lastEvent.arg.kind = "date"
     /\ valueAsDate.kind = "date")
        => rendered.inputValue = PropsFormatDate(valueAsDate)

C11_TimezoneChangeCallsOnChange ==
    (lastEvent.op = "timezoneChange" /\ valueAsDate.kind = "date") =>
        /\ onChangeCalls = <<[arg |-> IsoOf(valueAsDate, lastEvent.text.tz),
                              isUserChange |-> "undefined"]>>
        /\ timezoneValue = lastEvent.text.tz
        /\ rendered.timezoneSelectValue = lastEvent.text.tz

C11_Witness ==
    /\ lastEvent.op = "timezoneChange"
    /\ valueAsDate.kind = "date"
    /\ valueAsDate.time # 0
    /\ timePrecision = "minute"
    /\ lastEvent.text.tz = "Europe/Paris"
    /\ rendered.timezoneSelectValue = "Europe/Paris"
    /\ Len(onChangeCalls) = 1
    /\ onChangeCalls[1].arg.tz = "Europe/Paris"
    /\ onChangeCalls[1].arg.d.time = 0

Next ==
    \/ HandleInputFocus
    \/ \E target \in {"body", "popover"} : HandleInputBlur(target)
    \/ \E valueString \in TypedTexts : HandleInputChange(valueString)
    \/ KeyDownShiftTab
    \/ KeyDownTab
    \/ KeyDownEscape
    \/ KeyDownEnter
    \/ \E newDate \in Dates \cup {NullDate}, isUserChange \in BOOLEAN :
           DatePickerChange(newDate, isUserChange)
    \/ \E newTimezone \in Timezones : HandleTimezoneChange(newTimezone)
    \/ HandlePopoverClose
    \/ \E relatedTarget \in {"body", "popover"} : HandleStartFocusBoundaryFocusIn(relatedTarget)
    \/ \E relatedTarget \in {"body", "popover"} : HandleEndFocusBoundaryFocusIn(relatedTarget)
    \/ \E b \in BOOLEAN : SetDisabled(b)
    \/ \E newValue \in ValueProps(timezoneValue) : SetValue(newValue)

Spec == Init /\ [][Next]_vars
====
